---- MODULE Spec2Model ----
(***************************************************************************)
(* Model of the metadata resolution and caching engine (infoextract):      *)
(* getVideoInfo, resolveVideoQuery, searchVideos and their helpers, with   *)
(* the Cache Store, the Video record and the provider adapters as          *)
(* collaborators.                                                          *)
(***************************************************************************)
EXTENDS Integers, Sequences, FiniteSets, TLC

\* ------------------------------------------------------------------ bounds
\* Longest list a collection URL or a search returns.
MaxResults == 1

\* The requests of one behaviour, numbered in the order they are called.
Procs == {1, 2}

\* ------------------------------------------------------- JavaScript values
Undefined == "undefined"
Null == "null"

Truthy(v) == v # Undefined /\ v # Null

\* --------------------------------------------------------------- Video data
FieldNames == {"title", "mime"}

\* Values a stored record starts with, and values an adapter reports.
StoredValues(f) ==
  IF f = "title" THEN {"t1"} ELSE {"video/mp4", "video/x-unsupported"}
FetchedValues(f) ==
  IF f = "title" THEN {"t2"} ELSE {"video/mp4"}

AllValues ==
  UNION { StoredValues(f) \cup FetchedValues(f) : f \in FieldNames } \cup {Undefined, Null}

\* The attributes of a stored record: each field is undefined (no own
\* property), null, or a value.
StoredMaps ==
  { m \in [FieldNames -> AllValues] :
      /\ m["title"] \in StoredValues("title") \cup {Undefined, Null}
      /\ m["mime"] \in StoredValues("mime") \cup {Undefined} }

\* Attributes an adapter reports: undefined or a value.
FetchedMaps ==
  { m \in [FieldNames -> AllValues] :
      \A f \in FieldNames : m[f] \in FetchedValues(f) \cup {Undefined} }

NoFields == [f \in FieldNames |-> Undefined]

\* new Video(result): the record carries service, id and the attributes of
\* result.
Video(result) ==
  [service |-> result.service, id |-> result.id, fields |-> result.fields]

hasOwnProperty(video, p) == video.fields[p] # Undefined

\* Video.merge(a, b): right-biased, b's own attributes overwrite a's.
VideoMerge(a, b) ==
  [service |-> a.service, id |-> a.id,
   fields |-> [f \in FieldNames |->
                 IF b.fields[f] # Undefined THEN b.fields[f] ELSE a.fields[f]]]

NoVideo == [service |-> "", id |-> "", fields |-> NoFields]

\* ----------------------------------------------------------------- adapters
\* const adapters = [DailyMotion, GoogleDrive, Vimeo, YouTube, Direct]
adapters ==
  << [serviceId |-> "dailymotion"],
     [serviceId |-> "googledrive"],
     [serviceId |-> "vimeo"],
     [serviceId |-> "youtube"],
     [serviceId |-> "direct"] >>

NoAdapter == [serviceId |-> Undefined]

\* A find that keeps the last match instead of the first.
ArrayFindLast(arr, hits) ==
  IF hits = {} THEN NoAdapter
  ELSE arr[CHOOSE i \in hits : \A j \in hits : i >= j]

\* Array.prototype.find: of the elements of arr at the indices hits (those
\* that satisfy the test), the first one, else undefined.
ArrayFind(arr, hits) ==
  IF hits = {} THEN NoAdapter
  ELSE arr[CHOOSE i \in hits : \A j \in hits : i <= j]

\* The queries of the model and what the adapters say about them: free
\* text, URLs with a host, and URLs whose host is the empty string.
Queries ==
  { "some search text",
    "file:///x",
    "file:///b.mp4",
    "https://youtu.be/a",
    "https://youtu.be/b.mp4",
    "https://youtube.com/playlist?list=p",
    "https://example.com/b.mp4",
    "https://nowhere.example/x" }

\* URL.parse(str).host
UrlHost(str) ==
  CASE str = "some search text" -> Null
    [] str \in {"file:///x", "file:///b.mp4"} -> ""
    [] str \in {"https://youtu.be/a", "https://youtu.be/b.mp4"} -> "youtu.be"
    [] str = "https://youtube.com/playlist?list=p" -> "youtube.com"
    [] str = "https://example.com/b.mp4" -> "example.com"
    [] str = "https://nowhere.example/x" -> "nowhere.example"

canHandleLink(adapter, url) ==
  CASE adapter.serviceId = "youtube" -> UrlHost(url) \in {"youtu.be", "youtube.com"}
    [] adapter.serviceId = "direct" ->
         url \in {"https://youtu.be/b.mp4", "https://example.com/b.mp4",
                  "file:///b.mp4"}
    [] OTHER -> FALSE

isCollectionURL(adapter, url) ==
  adapter.serviceId = "youtube" /\ url = "https://youtube.com/playlist?list=p"

getVideoId(adapter, url) ==
  IF url = "https://youtu.be/a" THEN "a" ELSE "b"

\* ------------------------------------------------------------- Cache Store
Services == {"youtube", "direct", "unknown"}
Ids == {"a", "b"}
Keys == Services \X Ids

KeyOf(video) == <<video.service, video.id>>

\* storage.getVideoInfoFields(service): the schema of a service.
getVideoInfoFields(service) ==
  IF service = "youtube" THEN <<"title">> ELSE <<"title", "mime">>

Absent == [present |-> FALSE, fields |-> NoFields]

\* storage.getVideoInfo(service, id) on store c: the stored attributes, or a
\* record with the key alone when nothing is stored.
storageGetVideoInfo(c, service, videoId) ==
  [service |-> service, id |-> videoId, fields |-> c[<<service, videoId>>].fields]

\* storage.updateVideoInfo(video) on store c: upsert by (service, id).
storageUpdateVideoInfo(c, video) ==
  [c EXCEPT ![KeyOf(video)] = [present |-> TRUE, fields |-> video.fields]]

\* storage.updateManyVideoInfo(videos) on store c.
RECURSIVE storageUpdateManyVideoInfo(_, _)
storageUpdateManyVideoInfo(c, videos) ==
  IF videos = <<>> THEN c
  ELSE storageUpdateManyVideoInfo(storageUpdateVideoInfo(c, Head(videos)), Tail(videos))

\* -------------------------------------------------------------------- state
VARIABLES
  cache,     \* the Cache Store: key -> stored record
  req,       \* per request: position and locals of the running call
  inflight   \* requests whose cache write is issued and has not landed yet

vars == <<cache, req, inflight>>

NoRet == [kind |-> "none", video |-> NoVideo, list |-> <<>>, error |-> "none"]
RetVideo(v) == [kind |-> "video", video |-> v, list |-> <<>>, error |-> "none"]
RetList(l) == [kind |-> "list", video |-> NoVideo, list |-> l, error |-> "none"]
RetError(e) == [kind |-> "error", video |-> NoVideo, list |-> <<>>, error |-> e]

\* What an adapter call does: it completes inside the call (sync) or hands
\* back a promise that settles later (async); it yields a record (ok) or
\* fails with kind.
NoFetch == [mode |-> "none", kind |-> "none", fields |-> NoFields]
FetchOutcomes ==
  [mode : {"sync", "async"}, kind : {"ok"}, fields : FetchedMaps]
    \cup [mode : {"sync", "async"},
          kind : {"OutOfQuotaException", "AdapterError"}, fields : {NoFields}]

\* A call of updateCache that reached the store: which storage operation
\* it invoked, and with which records.
NoWrite == [op |-> "none", videos |-> <<>>]

\* What storage.getVideoInfo settled with.
NoRead == [ok |-> FALSE, result |-> NoVideo]

IdleReq ==
  [pc |-> "idle", op |-> "none", service |-> "", videoId |-> "",
   query |-> "", searchService |-> "", lookup |-> "none", via |-> "none",
   adapter |-> NoAdapter,
   read |-> NoRead,
   cachedVideo |-> NoVideo, missingInfo |-> <<>>,
   fetch |-> NoFetch, fetchCalls |-> 0, fetchFields |-> <<>>,
   promise |-> "none", deref |-> FALSE, after |-> {},
   write |-> NoWrite, ret |-> NoRet]

\* ------------------------------------------------------- infoextract source
\* function isURL(str): host != null, which the empty host passes.
isURL(str) == UrlHost(str) # Null

\* `this` inside getCachedVideo: the function is called without a receiver,
\* and nothing defines isSupportedMimeType on it.
ThisHas(name) == FALSE

\* async function getCachedVideo(service, videoId), from the point where
\* storage.getVideoInfo has settled with read = [ok, result].
getCachedVideo(read) ==
  IF ~read.ok
  THEN [threw |-> "StorageError", video |-> NoVideo, missingInfo |-> <<>>]
  ELSE
    LET video == Video(read.result)
        missingInfo == SelectSeq(getVideoInfoFields(video.service),
                                 LAMBDA p : ~hasOwnProperty(video, p))
    IN IF Truthy(video.fields["mime"])
       THEN IF ~ThisHas("isSupportedMimeType")
            THEN [threw |-> "TypeError", video |-> NoVideo, missingInfo |-> <<>>]
            ELSE [threw |-> "UnsupportedMimeTypeException",
                  video |-> NoVideo, missingInfo |-> <<>>]
       ELSE [threw |-> "none", video |-> video, missingInfo |-> missingInfo]

\* function getServiceAdapter(service)
getServiceAdapter(service) ==
  ArrayFind(adapters, { i \in 1..Len(adapters) : adapters[i].serviceId = service })

\* function getServiceAdapterForURL(url)
getServiceAdapterForURL(url) ==
  ArrayFind(adapters, { i \in 1..Len(adapters) : canHandleLink(adapters[i], url) })

\* missingInfo === 0: strict equality of an Array with the number 0.
StrictEqualsZero(arr) == FALSE

\* The value `adapter.fetchVideoInfo(...)` evaluates to when it does not
\* throw: the record (sync) or a Promise, which has no Video attributes.
FetchReturnValue(fetch, video) ==
  [service |-> video.service, id |-> video.id,
   fields |-> IF fetch.mode = "sync" THEN fetch.fields ELSE NoFields]

\* updateCache without the Array.isArray test: everything goes to
\* updateManyVideoInfo.
updateCacheAlwaysMany(videos) ==
  [op |-> "updateManyVideoInfo", videos |-> videos.items]

\* updateCache that forgets the storage call for arrays.
updateCacheSkipsArrays(videos) ==
  IF videos.isArray
  THEN [op |-> "none", videos |-> <<>>]
  ELSE [op |-> "updateVideoInfo", videos |-> videos.items]

\* async function updateCache(videos): videos = [isArray, items].
updateCache(videos) ==
  IF videos.isArray
  THEN [op |-> "updateManyVideoInfo", videos |-> videos.items]
  ELSE [op |-> "updateVideoInfo", videos |-> videos.items]

\* Line 82 with the comparison turned around.
QuotaFallbackReversed(missingInfo, cachedVideo) ==
  Len(missingInfo) > Len(getVideoInfoFields(cachedVideo.service))

\* Line 82: the quota fallback returns the cached record when fewer fields
\* are missing than the schema has.
QuotaFallbackCondition(missingInfo, cachedVideo) ==
  Len(missingInfo) < Len(getVideoInfoFields(cachedVideo.service))

\* async function getVideoInfo(service, videoId), lines 65-95: everything
\* after storage.getVideoInfo settled with read, given what the adapter does
\* (fetch) if it is called. The result is the new locals of the request.
getVideoInfoBody(r, read, fetch) ==
  LET adapter == r.adapter
      c == getCachedVideo(read)
      cachedVideo == c.video
      missingInfo == c.missingInfo
      r1 == [r EXCEPT !.pc = "done", !.read = read,
                      !.cachedVideo = cachedVideo, !.missingInfo = missingInfo]
  IN IF c.threw # "none" THEN [r1 EXCEPT !.ret = RetError(c.threw)]
     ELSE IF StrictEqualsZero(missingInfo) THEN [r1 EXCEPT !.ret = RetVideo(cachedVideo)]
     ELSE IF adapter = NoAdapter
       THEN \* undefined.fetchVideoInfo throws inside the try; not a quota error
            [r1 EXCEPT !.deref = TRUE, !.ret = RetError("TypeError")]
     ELSE
       LET r2 == [r1 EXCEPT !.fetch = fetch, !.fetchCalls = @ + 1,
                            !.fetchFields = missingInfo]
       IN IF fetch.mode = "async" \/ fetch.kind = "ok"
          THEN LET fetchedVideo == FetchReturnValue(fetch, cachedVideo)
                   video == VideoMerge(cachedVideo, fetchedVideo)
               IN [r2 EXCEPT !.promise = IF fetch.mode = "async" THEN "pending" ELSE "none",
                             !.write = updateCache([isArray |-> FALSE, items |-> <<video>>]),
                             !.ret = RetVideo(video)]
          ELSE IF fetch.kind = "OutOfQuotaException"
            THEN IF QuotaFallbackCondition(missingInfo, cachedVideo)
                 THEN [r2 EXCEPT !.ret = RetVideo(cachedVideo)]
                 ELSE [r2 EXCEPT !.ret = RetError(fetch.kind)]
          ELSE [r2 EXCEPT !.ret = RetError(fetch.kind)]

\* What adapter.resolveURL / adapter.searchVideos settle with.
ListMaps == { m \in FetchedMaps : \A f \in FieldNames : m[f] # Undefined }
ListVideos(service) ==
  { [service |-> service, id |-> i, fields |-> m] : i \in Ids, m \in ListMaps }
ListsOf(service) ==
  UNION { [1..n -> ListVideos(service)] : n \in 0..MaxResults }
ListOutcomes(service) ==
  [kind : {"ok"}, list : ListsOf(service)]
    \cup [kind : {"OutOfQuotaException", "AdapterError"}, list : {<<>>}]

SearchServices == {"youtube", "unknown"}

\* The (query, searchService) pairs resolveVideoQuery is called with: free
\* text with either search service, anything URL.parse gives a host (empty
\* or not) with the configured one.
ResolveInputs ==
  { in \in Queries \X SearchServices : UrlHost(in[1]) # Null => in[2] = "youtube" }

\* ------------------------------------------------------------------ actions
\* The store starts empty or with one record.
InitKeys == {<<"youtube", "a">>, <<"direct", "a">>}
InitCaches ==
  { [k \in Keys |-> IF k = k0 THEN [present |-> TRUE, fields |-> m] ELSE Absent] :
      k0 \in InitKeys, m \in StoredMaps } \cup { [k \in Keys |-> Absent] }

\* Ids getVideoInfo is called with directly.
CalledIds == {"a"}

\* The requests that have returned, and whose cache write (if any) has
\* landed, when a call is made.
Settled == { q \in Procs : req[q].pc = "done" /\ q \notin inflight }

\* Request p is the next one to be called.
InCallOrder(p) == \A q \in Procs : q < p => req[q].pc # "idle"

Init ==
  /\ cache \in InitCaches
  /\ req = [p \in Procs |-> IdleReq]
  /\ inflight = {}

\* getVideoInfo(service, videoId) is called: line 64, and line 65 up to the
\* call of storage.getVideoInfo (line 28).
CallGetVideoInfo(p) ==
  /\ req[p].pc = "idle"
  /\ InCallOrder(p)
  /\ \E service \in Services, videoId \in CalledIds :
       req' = [req EXCEPT ![p] =
                 [@ EXCEPT !.pc = "awaitCache", !.op = "getVideoInfo",
                           !.after = Settled, !.lookup = "byService",
                           !.service = service, !.videoId = videoId,
                           !.adapter = getServiceAdapter(service)]]
  /\ UNCHANGED <<cache, inflight>>

\* storage.getVideoInfo settles; lines 29-43 and 65-95 run to the return.
CacheReadSettles(p) ==
  /\ req[p].pc = "awaitCache"
  /\ \E ok \in BOOLEAN, fetch \in FetchOutcomes :
       LET read == IF ok
                   THEN [ok |-> TRUE,
                         result |-> storageGetVideoInfo(cache, req[p].service, req[p].videoId)]
                   ELSE NoRead
           r == getVideoInfoBody(req[p], read, fetch)
       IN /\ req' = [req EXCEPT ![p] = r]
          /\ inflight' = IF r.write.op # "none" THEN inflight \cup {p} ELSE inflight
  /\ UNCHANGED cache

\* resolveVideoQuery(query, searchService) is called: lines 99-115 up to the
\* first await.
CallResolveVideoQuery(p) ==
  /\ req[p].pc = "idle"
  /\ InCallOrder(p)
  /\ \E in \in ResolveInputs :
       LET query == in[1]
           searchService == in[2]
           r0 == [req[p] EXCEPT !.op = "resolveVideoQuery", !.query = query,
                               !.searchService = searchService,
                               !.lookup = IF isURL(query) THEN "byURL"
                                          ELSE "byService",
                               !.after = Settled]
           adapter == IF isURL(query) THEN getServiceAdapterForURL(query)
                      ELSE getServiceAdapter(searchService)
       IN req' = [req EXCEPT ![p] =
            IF adapter = NoAdapter
            THEN \* undefined.isCollectionURL / undefined.searchVideos
                 [r0 EXCEPT !.pc = "done", !.deref = TRUE, !.ret = RetError("TypeError")]
            ELSE IF isURL(query) /\ ~isCollectionURL(adapter, query)
            THEN [r0 EXCEPT !.pc = "awaitCache", !.via = "getVideoInfo",
                            !.service = adapter.serviceId,
                            !.videoId = getVideoId(adapter, query),
                            !.adapter = getServiceAdapter(adapter.serviceId)]
            ELSE [r0 EXCEPT !.pc = "awaitAdapter",
                            !.via = IF isURL(query) THEN "resolveURL" ELSE "searchVideos",
                            !.adapter = adapter]]
  /\ UNCHANGED <<cache, inflight>>

\* searchVideos(service, query) is called: lines 124-125.
CallSearchVideos(p) ==
  /\ req[p].pc = "idle"
  /\ InCallOrder(p)
  /\ \E service \in SearchServices, query \in {"some search text"} :
       LET r0 == [req[p] EXCEPT !.op = "searchVideos", !.query = query,
                               !.searchService = service,
                               !.lookup = "byService",
                               !.after = Settled]
           adapter == getServiceAdapter(service)
       IN req' = [req EXCEPT ![p] =
            IF adapter = NoAdapter
            THEN [r0 EXCEPT !.pc = "done", !.deref = TRUE, !.ret = RetError("TypeError")]
            ELSE [r0 EXCEPT !.pc = "awaitAdapter", !.via = "searchVideos",
                            !.adapter = adapter]]
  /\ UNCHANGED <<cache, inflight>>

\* adapter.resolveURL / adapter.searchVideos settles; resolveVideoQuery runs
\* lines 112 or 116 and 119-120, searchVideos hands the outcome through.
AdapterListSettles(p) ==
  /\ req[p].pc = "awaitAdapter"
  /\ \E out \in ListOutcomes(req[p].adapter.serviceId) :
       LET r == req[p]
           r1 == IF out.kind # "ok"
                 THEN [r EXCEPT !.pc = "done", !.ret = RetError(out.kind)]
                 ELSE IF r.op = "resolveVideoQuery"
                 THEN [r EXCEPT !.pc = "done",
                                !.write = updateCache([isArray |-> TRUE, items |-> out.list]),
                                !.ret = RetList(out.list)]
                 ELSE [r EXCEPT !.pc = "done", !.ret = RetList(out.list)]
       IN /\ req' = [req EXCEPT ![p] = r1]
          /\ inflight' = IF r1.write.op # "none" THEN inflight \cup {p} ELSE inflight
  /\ UNCHANGED cache

\* The promise fetchVideoInfo returned, which nothing awaits, settles.
FetchSettles(p) ==
  /\ req[p].promise = "pending"
  /\ req' = [req EXCEPT ![p].promise = "settled"]
  /\ UNCHANGED <<cache, inflight>>

\* A write that replaces the content of the store by the written records.
WriteLandsReplacingStore(p) ==
  /\ p \in inflight
  /\ cache' = storageUpdateManyVideoInfo([k \in Keys |-> Absent], req[p].write.videos)
  /\ inflight' = inflight \ {p}
  /\ UNCHANGED req

\* A storage write issued by updateCache lands in the store.
WriteLands(p) ==
  /\ p \in inflight
  /\ cache' = IF req[p].write.op = "updateManyVideoInfo"
              THEN storageUpdateManyVideoInfo(cache, req[p].write.videos)
              ELSE storageUpdateVideoInfo(cache, Head(req[p].write.videos))
  /\ inflight' = inflight \ {p}
  /\ UNCHANGED req

Next ==
  \E p \in Procs :
    \/ CallGetVideoInfo(p)
    \/ CacheReadSettles(p)
    \/ CallResolveVideoQuery(p)
    \/ CallSearchVideos(p)
    \/ AdapterListSettles(p)
    \/ FetchSettles(p)
    \/ WriteLands(p)

Spec == Init /\ [][Next]_vars

TypeOK ==
  /\ inflight \subseteq Procs
  /\ cache \in [Keys -> [present : BOOLEAN, fields : [FieldNames -> AllValues]]]
  /\ \A p \in Procs :
       /\ req[p].pc \in {"idle", "awaitCache", "awaitAdapter", "done"}
       /\ req[p].fetchCalls \in 0..1
       /\ req[p].ret.kind \in {"none", "video", "list", "error"}

\* ------------------------------------------------------ vocabulary of claims
\* Request p has returned to its caller (with a value or an error).
Returned(p) == req[p].pc = "done"

\* Request p ran getVideoInfo, called directly or by resolveVideoQuery.
ViaGetVideoInfo(p) == req[p].op = "getVideoInfo" \/ req[p].via = "getVideoInfo"

\* The record the Cache Store handed to request p.
CachedRecord(p) == req[p].read.result

\* The declared schema of the service of request p, as a set.
SchemaOf(p) ==
  { getVideoInfoFields(req[p].service)[i] :
      i \in 1..Len(getVideoInfoFields(req[p].service)) }

\* A field is populated when it is present and non-null.
Populated(video, f) == Truthy(video.fields[f])

\* The mime types the player supports.
SupportedMimeTypes == {"video/mp4"}

DeclaresUnsupportedMime(video) ==
  Truthy(video.fields["mime"]) /\ video.fields["mime"] \notin SupportedMimeTypes

\* Request p got its cached record and that record passes step 2 of the
\* resolver (no unsupported mime).
ReadValid(p) ==
  /\ Returned(p) /\ ViaGetVideoInfo(p)
  /\ req[p].read.ok
  /\ ~DeclaresUnsupportedMime(CachedRecord(p))

\* Request p called fetchVideoInfo and the fetch ended with kind.
Fetched(p, kind) ==
  /\ Returned(p) /\ ViaGetVideoInfo(p)
  /\ req[p].fetchCalls = 1
  /\ req[p].fetch.kind = kind

\* The cached record of request p with the fetched record merged over it.
MergedRecord(p) ==
  [service |-> req[p].service, id |-> req[p].videoId,
   fields |-> [f \in FieldNames |->
                 IF req[p].fetch.fields[f] # Undefined
                 THEN req[p].fetch.fields[f] ELSE CachedRecord(p).fields[f]]]

\* ------------------------------------------------------------------- claims
\* C1: cache-hit fast path. A request whose cached record has every field
\* of the service's schema populated makes no fetchVideoInfo call and
\* returns the cached record unchanged.
C1_CacheHitFastPath ==
  \A p \in Procs :
    (ReadValid(p) /\ \A f \in SchemaOf(p) : Populated(CachedRecord(p), f))
      => /\ req[p].fetchCalls = 0
         /\ req[p].ret = RetVideo(CachedRecord(p))

\* C2: quota degradation. When the cached record has some but not all schema
\* fields populated and the fetch fails with quota-exceeded, getVideoInfo
\* returns the cached record with exactly its cached fields, and no error.
C2_QuotaDegradation ==
  \A p \in Procs :
    ( /\ Fetched(p, "OutOfQuotaException")
      /\ \E f \in SchemaOf(p) : Populated(CachedRecord(p), f)
      /\ \E f \in SchemaOf(p) : ~Populated(CachedRecord(p), f) )
      => req[p].ret = RetVideo(CachedRecord(p))

\* C2 witness: a fetch that threw quota-exceeded with a partial cached
\* record, answered with that record.
C2_Witness ==
  \E p \in Procs :
    /\ Fetched(p, "OutOfQuotaException")
    /\ req[p].fetch.mode = "sync"
    /\ \E f \in SchemaOf(p) : Populated(CachedRecord(p), f)
    /\ \E f \in SchemaOf(p) : ~Populated(CachedRecord(p), f)
    /\ req[p].ret = RetVideo(CachedRecord(p))

\* C3: quota hard failure. When the cached record has no populated field and
\* the fetch fails with quota-exceeded, getVideoInfo raises quota-exceeded
\* and returns no record.
C3_QuotaHardFailure ==
  \A p \in Procs :
    ( /\ Fetched(p, "OutOfQuotaException")
      /\ \A f \in FieldNames : ~Populated(CachedRecord(p), f) )
      => req[p].ret = RetError("OutOfQuotaException")

\* C4: unsupported mime rejection. When the cached record declares a mime
\* that is not supported, getVideoInfo fails with
\* UnsupportedMimeTypeException, fetches nothing and writes nothing.
C4_UnsupportedMimeRejected ==
  \A p \in Procs :
    ( /\ Returned(p) /\ ViaGetVideoInfo(p) /\ req[p].read.ok
      /\ DeclaresUnsupportedMime(CachedRecord(p)) )
      => /\ req[p].ret = RetError("UnsupportedMimeTypeException")
         /\ req[p].fetchCalls = 0
         /\ req[p].write = NoWrite

\* C5: write-back on gap fill. When fields are missing and the fetch
\* succeeds, getVideoInfo issues an upsert of the merged record (cached plus
\* fetched) and returns that same merged record.
C5_WriteBackOnGapFill ==
  \A p \in Procs :
    (Fetched(p, "ok") /\ req[p].missingInfo # <<>>)
      => /\ req[p].write = [op |-> "updateVideoInfo", videos |-> <<MergedRecord(p)>>]
         /\ req[p].ret = RetVideo(MergedRecord(p))

\* C6: gap-fill merge. When the cached record misses field F and the fetch
\* returns only F, the returned record has every cached field with its
\* cached value plus F with the fetched value.
C6_GapFillMerge ==
  \A p \in Procs : \A F \in FieldNames :
    ( /\ Fetched(p, "ok")
      /\ CachedRecord(p).fields[F] = Undefined
      /\ req[p].fetch.fields[F] # Undefined
      /\ \A G \in FieldNames \ {F} : req[p].fetch.fields[G] = Undefined )
      => /\ req[p].ret.kind = "video"
         /\ req[p].ret.video.fields =
              [CachedRecord(p).fields EXCEPT ![F] = req[p].fetch.fields[F]]

\* C7: overlap precedence. When cached and fetched records both define F
\* with different values, the returned and the written record carry the
\* fetched F; fields the fetched record lacks keep the cached value.
C7_OverlapPrecedence ==
  \A p \in Procs : \A F \in FieldNames :
    ( /\ Fetched(p, "ok")
      /\ Populated(CachedRecord(p), F)
      /\ req[p].fetch.fields[F] # Undefined
      /\ CachedRecord(p).fields[F] # req[p].fetch.fields[F] )
      => /\ req[p].ret.kind = "video"
         /\ req[p].ret.video.fields[F] = req[p].fetch.fields[F]
         /\ req[p].write.op = "updateVideoInfo"
         /\ Head(req[p].write.videos).fields[F] = req[p].fetch.fields[F]
         /\ \A G \in FieldNames :
              req[p].fetch.fields[G] = Undefined
                => req[p].ret.video.fields[G] = CachedRecord(p).fields[G]

\* C8: idempotence. When getVideoInfo resolves a key, and is called again
\* for that key after the first call returned and its write landed, with a
\* provider that answers the same, the second call returns the same record
\* and makes no fetchVideoInfo call.
C8_Idempotence ==
  \A p \in Procs : \A q \in Procs \ {p} :
    ( /\ Returned(p) /\ ViaGetVideoInfo(p) /\ req[p].ret.kind = "video"
      /\ Fetched(p, "ok")
      /\ \A f \in SchemaOf(p) : req[p].fetch.fields[f] # Undefined
      /\ Returned(q) /\ ViaGetVideoInfo(q)
      /\ req[q].service = req[p].service /\ req[q].videoId = req[p].videoId
      /\ p \in req[q].after
      /\ req[q].read.ok
      /\ req[q].fetchCalls = 1 => req[q].fetch = req[p].fetch )
      => /\ req[q].ret = req[p].ret
         /\ req[q].fetchCalls = 0

\* C9: non-quota adapter errors are never masked. When fetchVideoInfo fails
\* with an error other than quota-exceeded, getVideoInfo fails with that
\* error and returns no record.
C9_OtherErrorsPropagate ==
  \A p \in Procs :
    Fetched(p, "AdapterError") => req[p].ret = RetError("AdapterError")

\* C10: unresolvable reference. When no adapter matches the URL or the
\* service, the call fails with an unresolvable-reference error, without
\* dereferencing the missing adapter, calling an adapter or writing.
C10_UnresolvableReference ==
  \A p \in Procs :
    (Returned(p) /\ req[p].adapter = NoAdapter)
      => /\ req[p].ret = RetError("UnresolvableReference")
         /\ ~req[p].deref
         /\ req[p].fetchCalls = 0
         /\ req[p].write = NoWrite

\* The records of the storage write request p issued.
WrittenBy(p) == { req[p].write.videos[i] : i \in 1..Len(req[p].write.videos) }

\* The records request p handed back to its caller.
ReturnedRecords(p) ==
  IF req[p].ret.kind = "video" THEN {req[p].ret.video}
  ELSE { req[p].ret.list[i] : i \in 1..Len(req[p].ret.list) }

\* C11 as stated: in every branch of resolveVideoQuery, every record handed
\* back has had an upsert issued for it before the call returns, also when
\* the single-item record came straight from the cache.
C11_EveryReturnedRecordWritten ==
  \A p \in Procs :
    (Returned(p) /\ req[p].op = "resolveVideoQuery" /\ req[p].ret.kind \in {"video", "list"})
      => /\ req[p].write.op # "none"
         /\ ReturnedRecords(p) \subseteq WrittenBy(p)

\* C11 amended: every record resolveVideoQuery hands back has had an upsert
\* issued for it before the call returns, except the cached record that the
\* single-item branch returns unchanged on quota degradation, for which no
\* write is issued.
C11_ReturnedRecordWrittenUnlessCached ==
  \A p \in Procs :
    (Returned(p) /\ req[p].op = "resolveVideoQuery" /\ req[p].ret.kind \in {"video", "list"})
      => \/ /\ req[p].write.op # "none"
            /\ ReturnedRecords(p) \subseteq WrittenBy(p)
         \/ /\ req[p].write = NoWrite
            /\ req[p].via = "getVideoInfo"
            /\ req[p].fetch.kind = "OutOfQuotaException"
            /\ req[p].ret = RetVideo(req[p].cachedVideo)

\* C11 witness: a collection or search returned a non-empty list whose
\* records were handed to updateManyVideoInfo.
C11_Witness ==
  \E p \in Procs :
    /\ Returned(p) /\ req[p].op = "resolveVideoQuery"
    /\ req[p].ret.kind = "list" /\ req[p].ret.list # <<>>
    /\ req[p].write = [op |-> "updateManyVideoInfo", videos |-> req[p].ret.list]

\* The adapter path request p took: "getVideoInfo", "resolveURL" or
\* "searchVideos" ("none" before the dispatch and when no adapter is found).
PathOf(p) == req[p].via

\* The query of request p parses as a URL with a non-empty host.
HasNonEmptyHost(p) == UrlHost(req[p].query) \notin {Null, ""}

\* C12: URL vs query dispatch. A resolveVideoQuery whose query is a URL with
\* a non-empty host looks its adapter up by URL and, for a single-item URL,
\* resolves getVideoInfo(adapter.serviceId, adapter.getVideoId(url)), for a
\* collection URL calls resolveURL; any other query looks its adapter up by
\* searchService, never by URL, and goes to searchVideos. One path is taken,
\* and only the single-item path calls fetchVideoInfo.
C12_UrlVsQueryDispatch ==
  \A p \in Procs :
    req[p].op = "resolveVideoQuery"
      => LET query == req[p].query
             byURL == getServiceAdapterForURL(query)
         IN IF HasNonEmptyHost(p)
            THEN /\ req[p].lookup = "byURL"
                 /\ PathOf(p) # "none"
                      => IF ~isCollectionURL(byURL, query)
                         THEN /\ PathOf(p) = "getVideoInfo"
                              /\ req[p].service = byURL.serviceId
                              /\ req[p].videoId = getVideoId(byURL, query)
                              /\ req[p].ret.kind # "list"
                         ELSE /\ PathOf(p) = "resolveURL"
                              /\ req[p].adapter = byURL
                              /\ req[p].fetchCalls = 0 /\ req[p].ret.kind # "video"
            ELSE /\ req[p].lookup = "byService"
                 /\ PathOf(p) # "none"
                      => /\ PathOf(p) = "searchVideos"
                         /\ req[p].adapter.serviceId = req[p].searchService
                         /\ req[p].fetchCalls = 0 /\ req[p].ret.kind # "video"

\* The adapter of request p, when its fetch succeeds, supplies every schema
\* field the cached record lacks.
AnswerComplete(p) ==
  req[p].fetch.kind = "ok"
    => \A f \in SchemaOf(p) :
         Populated(CachedRecord(p), f) \/ req[p].fetch.fields[f] # Undefined

\* C13: degradation only for quota errors with partial cached data. When
\* getVideoInfo returns a record that lacks a populated schema field (and
\* the adapter does not answer with less than it was asked for), the fetch
\* of that request failed with quota-exceeded and the cached record had a
\* populated schema field.
C13_DegradationOnlyOnQuota ==
  \A p \in Procs :
    ( /\ Returned(p) /\ ViaGetVideoInfo(p) /\ req[p].ret.kind = "video"
      /\ AnswerComplete(p)
      /\ \E f \in SchemaOf(p) : ~Populated(req[p].ret.video, f) )
      => /\ req[p].fetchCalls = 1
         /\ req[p].fetch.kind = "OutOfQuotaException"
         /\ \E f \in SchemaOf(p) : Populated(CachedRecord(p), f)

\* C14: gap detection. The fields passed to fetchVideoInfo are exactly the
\* schema fields that are not present and non-null on the cached record.
C14_GapDetection ==
  \A p \in Procs :
    (Returned(p) /\ ViaGetVideoInfo(p) /\ req[p].fetchCalls = 1)
      => { req[p].fetchFields[i] : i \in 1..Len(req[p].fetchFields) }
           = { f \in SchemaOf(p) : ~Populated(CachedRecord(p), f) }

\* C15: the engine never deletes. Every step keeps every key that is in the
\* Cache Store, and the only storage writes issued are updateVideoInfo and
\* updateManyVideoInfo.
C15_NeverDeletes ==
  [][ /\ \A k \in Keys : cache[k].present => cache'[k].present
      /\ \A p \in Procs :
           req'[p].write.op \in {"none", "updateVideoInfo", "updateManyVideoInfo"}
    ]_vars

\* C15 witness: a write has landed and a record of another key, which no
\* request wrote, is still in the store.
C15_Witness ==
  \E p \in Procs :
    /\ Returned(p) /\ req[p].write.op # "none" /\ p \notin inflight
    /\ \A q \in Procs \ {p} : req[q].write = NoWrite
    /\ \E k \in Keys :
         /\ cache[k].present
         /\ \A v \in WrittenBy(p) : KeyOf(v) # k

\* Requests p and q overlapped: neither was called after the other had
\* returned and its write had landed.
Concurrent(p, q) == p \notin req[q].after /\ q \notin req[p].after

\* C16: same-key race tolerance. Two concurrent getVideoInfo requests for
\* one key whose fetches succeed with the same provider answer both return
\* the same merged record, and once both writes have landed the store holds
\* that merged record.
C16_SameKeyRace ==
  \A p \in Procs : \A q \in Procs \ {p} :
    ( /\ Fetched(p, "ok") /\ Fetched(q, "ok")
      /\ req[p].service = req[q].service /\ req[p].videoId = req[q].videoId
      /\ Concurrent(p, q)
      /\ req[p].fetch = req[q].fetch )
      => /\ req[p].ret = RetVideo(MergedRecord(p))
         /\ req[q].ret = req[p].ret
         /\ (p \notin inflight /\ q \notin inflight)
              => cache[<<req[p].service, req[p].videoId>>].fields
                   = MergedRecord(p).fields

\* C17: per-request ordering. Within a getVideoInfo request the merge
\* result is written back and returned only after the fetch of that request
\* has completed.
C17_FetchBeforeMergeAndWrite ==
  \A p \in Procs :
    (ViaGetVideoInfo(p) /\ (req[p].write.op # "none" \/ req[p].ret.kind = "video"))
      => req[p].promise # "pending"

\* C18: first match in configured order. resolveVideoQuery of a URL uses
\* the adapter of least index among those whose canHandleLink accepts the
\* URL, and none when no adapter accepts it.
C18_FirstMatchRouting ==
  \A p \in Procs :
    (req[p].op = "resolveVideoQuery" /\ UrlHost(req[p].query) # Null)
      => LET hits == { i \in 1..Len(adapters) : canHandleLink(adapters[i], req[p].query) }
         IN IF hits = {} THEN req[p].adapter = NoAdapter
            ELSE \E i \in hits :
                   /\ \A j \in hits : i <= j
                   /\ req[p].adapter = adapters[i]
                   /\ req[p].via = "getVideoInfo" => req[p].service = adapters[i].serviceId

\* C18 witness: a URL that both YouTube and Direct accept was resolved, and
\* the fetch went to YouTube.
C18_Witness ==
  \E p \in Procs :
    /\ Returned(p) /\ req[p].op = "resolveVideoQuery"
    /\ req[p].query = "https://youtu.be/b.mp4"
    /\ canHandleLink(adapters[4], req[p].query) /\ canHandleLink(adapters[5], req[p].query)
    /\ req[p].service = "youtube" /\ req[p].fetchCalls = 1

\* C19: a request that does not succeed in fetching leaves the cache as it
\* was. A request that ended in an error, or whose fetch failed, has issued
\* no cache write.
C19_FailedRequestWritesNothing ==
  \A p \in Procs :
    ( /\ Returned(p)
      /\ \/ req[p].ret.kind = "error"
         \/ req[p].fetchCalls = 1 /\ req[p].fetch.kind # "ok" )
      => req[p].write = NoWrite

\* C20: key independence. A getVideoInfo request calls fetchVideoInfo at
\* most once and issues at most one write, of one record whose key is the
\* requested (service, videoId); when that write lands every other key of
\* the store is unchanged.
C20_KeyIndependence ==
  [][ \A p \in Procs :
        /\ (req'[p].op = "getVideoInfo" \/ req'[p].via = "getVideoInfo")
             => /\ req'[p].fetchCalls <= 1
                /\ req'[p].write.op # "none"
                     => /\ req'[p].write.op = "updateVideoInfo"
                        /\ Len(req'[p].write.videos) = 1
                        /\ KeyOf(Head(req'[p].write.videos))
                             = <<req'[p].service, req'[p].videoId>>
        /\ (ViaGetVideoInfo(p) /\ p \in inflight /\ p \notin inflight')
             => \A k \in Keys \ {<<req[p].service, req[p].videoId>>} :
                  cache'[k] = cache[k]
    ]_vars

\* C20 witness: a getVideoInfo request fetched once, its write has landed,
\* and another key holds a record.
C20_Witness ==
  \E p \in Procs :
    /\ Returned(p) /\ ViaGetVideoInfo(p)
    /\ req[p].fetchCalls = 1
    /\ req[p].write.op = "updateVideoInfo" /\ p \notin inflight
    /\ \E k \in Keys \ {<<req[p].service, req[p].videoId>>} : cache[k].present

====
